---- MODULE Spec2Model ----
(***************************************************************************)
(* Model of rest_framework_docs/api_endpoint.py: the construction of one   *)
(* ApiEndpoint from a URL pattern, an optional parent regex and an         *)
(* optional DRF router.  The constructor is a straight-line program; each  *)
(* group of its statements is one action, ordered by pc.                   *)
(*                                                                         *)
(* Regular expressions and paths are sequences of tokens, so that the      *)
(* router's str.format reconstruction and the comparison with the          *)
(* endpoint's pattern are computed, not assumed.                           *)
(***************************************************************************)
EXTENDS Integers, Sequences, FiniteSets, TLC

VARIABLES
    handler,          \* pattern.callback / pattern.callback.cls
    pattern,          \* pattern.regex.pattern (token sequence)
    parent_regex,     \* parent_regex argument (token sequence or None)
    drf_router,       \* drf_router argument (record or None)
    pc,               \* position in ApiEndpoint.__init__
    raised,           \* exception that left __init__, or "none"
    docstring,
    name_parent,
    path,
    allowed_methods,
    errors,
    serializer_class,
    serializer,
    fields,
    fields_json,
    read_only_fields,
    write_only_fields,
    permissions

vars == <<handler, pattern, parent_regex, drf_router, pc, raised, docstring,
          name_parent, path, allowed_methods, errors, serializer_class,
          serializer, fields, fields_json, read_only_fields,
          write_only_fields, permissions>>

\* Python's None where a string is expected, and the two shapes of a value
\* that is None or a list/dict (records, so that both shapes compare).
None == "None"
NoneValue == [kind |-> "None", items |-> <<>>]
ListValue(items) == [kind |-> "list", items |-> items]
DictValue(items) == [kind |-> "dict", items |-> items]
\* an attribute of the endpoint that has not been assigned
UnsetValue == [kind |-> "unset", items |-> <<>>]
UnsetClass == [kind |-> "unset"]
UnsetDoc == <<"unset", "">>
Unset == "<unset>"
\* drf_router=None
NoRouter == [is_none |-> TRUE]
\* a serializer class that is None
NoneClass == [kind |-> "None"]

----------------------------------------------------------------------------
(* Bounds of the model *)

\* longest router registry
MaxRegistry == 2
\* most routes router.get_routes returns for one viewset
MaxRoutes == 2

----------------------------------------------------------------------------
(* Generic helpers *)

Range(s) == {s[i] : i \in 1..Len(s)}

RECURSIVE Flatten(_)
Flatten(ss) == IF ss = <<>> THEN <<>> ELSE Head(ss) \o Flatten(Tail(ss))

\* all sequences over S of length at most n
SeqUpTo(S, n) == UNION {[1..k -> S] : k \in 0..n}

\* dict lookup on a dict kept as a sequence of <<key, value>> pairs
DictHas(d, k) == \E i \in 1..Len(d) : d[i][1] = k
DictGet(d, k) == d[CHOOSE i \in 1..Len(d) : d[i][1] = k][2]

----------------------------------------------------------------------------
(* HTTP methods *)

\* django View.http_method_names, restricted to the verbs VIEWSET_METHODS names
HTTP_METHOD_NAMES == <<"get", "post", "put", "patch", "delete">>

\* str.upper on a method name
Upper(m) ==
    CASE m = "get" -> "GET"
      [] m = "post" -> "POST"
      [] m = "put" -> "PUT"
      [] m = "patch" -> "PATCH"
      [] m = "delete" -> "DELETE"

\* position of an upper-cased method name in lexicographic string order
StrRank(s) ==
    CASE s = "DELETE" -> 1
      [] s = "GET" -> 2
      [] s = "PATCH" -> 3
      [] s = "POST" -> 4
      [] s = "PUT" -> 5

RECURSIVE InsertSorted(_, _)
InsertSorted(x, s) ==
    IF s = <<>> THEN <<x>>
    ELSE IF StrRank(x) < StrRank(Head(s)) THEN <<x>> \o s
    ELSE <<Head(s)>> \o InsertSorted(x, Tail(s))

\* sorted(): ascending, stable, keeps duplicates
RECURSIVE sorted(_)
sorted(s) == IF s = <<>> THEN <<>>
             ELSE InsertSorted(s[Len(s)], sorted(SubSeq(s, 1, Len(s) - 1)))

VIEWSET_METHODS(suffix) ==
    CASE suffix = "List" -> <<"get", "post">>
      [] suffix = "Instance" -> <<"get", "put", "patch", "delete">>
      [] OTHER -> <<>>

----------------------------------------------------------------------------
(* Handler introspection *)

\* hasattr(callback_cls, name)
hasattr(h, name) == name \in h.attrs

\* the function object getattr(cls, action) yields: two attribute names may be
\* bound to one function (create = list in the class body)
getattr(h, action) ==
    IF h.alias /\ action = "create" THEN "list" ELSE action

\* inspect.getdoc of a function or of the view callback
getdoc(f) == <<"doc", f>>

\* is_method_allowed without the ModelViewSet allow-list (for comparison only)
is_method_allowed_attr_only(h, method_name) == hasattr(h, method_name)

is_method_allowed(h, method_name) ==
    LET has_attr == hasattr(h, method_name)
        viewset_method ==
            /\ h.is_model_viewset
            /\ method_name \in Range(VIEWSET_METHODS(h.suffix))
    IN  has_attr \/ viewset_method

----------------------------------------------------------------------------
(* Router *)

\* route.url.format(prefix=..., lookup=..., trailing_slash=...)
FormatToken(t, prefix, lookup, trailing_slash) ==
    CASE t = "{prefix}" -> prefix
      [] t = "{lookup}" -> lookup
      [] t = "{trailing_slash}" -> trailing_slash
      [] OTHER -> <<t>>

Format(url, prefix, lookup, trailing_slash) ==
    Flatten([i \in 1..Len(url) |->
                FormatToken(url[i], prefix, lookup, trailing_slash)])

\* get_method_map binding every action of the route, existing or not (for
\* comparison only)
get_method_map_unfiltered(h, method_map) == method_map

\* router.get_method_map(viewset, method_map): only actions which exist on
\* the viewset are bound
RECURSIVE get_method_map(_, _)
get_method_map(h, method_map) ==
    IF method_map = <<>> THEN <<>>
    ELSE LET rest == get_method_map(h, Tail(method_map))
         IN  IF hasattr(h, Head(method_map)[2])
             THEN <<Head(method_map)>> \o rest
             ELSE rest

\* [(mapping[m], m.upper()) for m in http_method_names if m in mapping]
RECURSIVE BoundPairs(_, _)
BoundPairs(names, mapping) ==
    IF names = <<>> THEN <<>>
    ELSE LET rest == BoundPairs(Tail(names), mapping)
         IN  IF DictHas(mapping, Head(names))
             THEN <<<<DictGet(mapping, Head(names)), Upper(Head(names))>>>> \o rest
             ELSE rest

\* The docstring decision of a matched route, without the override (for
\* comparison only)
RouteDocstringNoOverride(h, funcs, old) == old

\* The docstring decision of a matched route, always adopting the first bound
\* function's documentation (for comparison only)
RouteDocstringAlways(h, funcs, old) == getdoc(getattr(h, funcs[1]))

\* lines 91-92: adopt the function's documentation when one name is bound
RouteDocstring(h, funcs, old) ==
    IF Cardinality(Range(funcs)) = 1
    THEN getdoc(getattr(h, funcs[1]))
    ELSE old

\* Body of the loop over routes (lines 71-92).  st carries viewset_methods,
\* docstring and the exception raised so far.
VisitRoute(h, pat, router, prefix, route, st) ==
    LET mapping == get_method_map(h, route.mapping)
        regex == Format(route.url, prefix, router.lookup, router.trailing_slash)
        pairs == BoundPairs(h.http_method_names, mapping)
        funcs == [i \in 1..Len(pairs) |-> pairs[i][1]]
        methods == [i \in 1..Len(pairs) |-> pairs[i][2]]
    IN  IF st.raised # "none" THEN st
        ELSE IF mapping = <<>> THEN st
        ELSE IF pat # regex THEN st
        \* zip(*[]) yields nothing to unpack into two names
        ELSE IF pairs = <<>> THEN [st EXCEPT !.raised = "ValueError"]
        ELSE [st EXCEPT !.viewset_methods = methods,
                        !.docstring = RouteDocstring(h, funcs, st.docstring)]

RECURSIVE VisitRoutes(_, _, _, _, _, _)
VisitRoutes(h, pat, router, prefix, routes, st) ==
    IF routes = <<>> THEN st
    ELSE VisitRoutes(h, pat, router, prefix, Tail(routes),
                     VisitRoute(h, pat, router, prefix, Head(routes), st))

\* Loop over router.registry (lines 64-92)
RECURSIVE VisitRegistry(_, _, _, _, _)
VisitRegistry(h, pat, router, registry, st) ==
    IF registry = <<>> THEN st
    ELSE LET entry == Head(registry)
             next == IF h.cls # entry.viewset THEN st
                     ELSE VisitRoutes(h, pat, router, entry.prefix,
                                      router.routes, st)
         IN  VisitRegistry(h, pat, router, Tail(registry), next)

\* lines 62-92
RouterWalk(h, pat, router, doc) ==
    LET st0 == [viewset_methods |-> <<>>, docstring |-> doc, raised |-> "none"]
    IN  IF router.is_none THEN st0
        ELSE VisitRegistry(h, pat, router, router.registry, st0)

\* lines 94-96
RECURSIVE ViewMethods(_, _)
ViewMethods(h, names) ==
    IF names = <<>> THEN <<>>
    ELSE LET rest == ViewMethods(h, Tail(names))
         IN  IF is_method_allowed(h, Head(names))
             THEN <<Upper(Head(names))>> \o rest
             ELSE rest

\* line 97
MergeMethods(viewset_methods, view_methods) ==
    sorted(viewset_methods \o view_methods)

----------------------------------------------------------------------------
(* Path *)

\* django simplify_regex on one token: anchors vanish, a named group becomes
\* its name in angle brackets
SimplifyToken(t) ==
    CASE t = "^" -> <<>>
      [] t = "$" -> <<>>
      [] t = "(?P<pk>[^/.]+)" -> <<"<pk>">>
      [] OTHER -> <<t>>

simplify_regex(regex) ==
    LET body == Flatten([i \in 1..Len(regex) |-> SimplifyToken(regex[i])])
    IN  IF body # <<>> /\ Head(body) = "/" THEN body ELSE <<"/">> \o body

\* str.strip('/')
RECURSIVE LStrip(_)
LStrip(s) == IF s # <<>> /\ Head(s) = "/" THEN LStrip(Tail(s)) ELSE s
RECURSIVE RStrip(_)
RStrip(s) == IF s # <<>> /\ s[Len(s)] = "/"
             THEN RStrip(SubSeq(s, 1, Len(s) - 1)) ELSE s
Strip(s) == RStrip(LStrip(s))

\* line 34; an empty or missing parent_regex is falsy
GetNameParent(parent) ==
    IF parent # <<>> THEN Strip(simplify_regex(parent)) ELSE <<>>

\* __get_path__
GetPath(parent, name_par, pat) ==
    IF parent # <<>> THEN <<"/">> \o name_par \o simplify_regex(pat)
    ELSE simplify_regex(pat)

----------------------------------------------------------------------------
(* Serializer resolution *)

\* __get_serializer_class__
GetSerializerClass(h) ==
    IF h.serializer_class.present THEN h.serializer_class.value
    ELSE IF h.get_serializer_class.present THEN h.get_serializer_class.value
    ELSE NoneClass

\* __get_serializer__ recording the error and re-raising (for comparison only)
GetSerializerReraise(cls) ==
    IF cls.raises = "none"
    THEN [instance |-> <<cls.instance>>, errors |-> None, raised |-> "none"]
    ELSE [instance |-> <<>>, errors |-> cls.raises, raised |-> cls.raises]

\* __get_serializer__: the instance (a sequence of length 0 for None), the
\* value left in self.errors, and the exception that propagates
GetSerializer(cls) ==
    IF cls.raises = "none"
    THEN [instance |-> <<cls.instance>>, errors |-> None, raised |-> "none"]
    ELSE IF cls.raises = "KeyError"
    THEN [instance |-> <<>>, errors |-> "KeyError", raised |-> "none"]
    ELSE [instance |-> <<>>, errors |-> None, raised |-> cls.raises]

----------------------------------------------------------------------------
(* Field choices *)

\* A choice key is <<kind, text>>; str(key) is the string with the same text.
IsStr(key) == key[1] = "str"
Str(key) == <<"str", key[2]>>

\* dict([...]) from pairs: a repeated key keeps its first position and takes
\* the last value
RECURSIVE DictFromPairs(_)
DictFromPairs(pairs) ==
    IF pairs = <<>> THEN <<>>
    ELSE LET init == DictFromPairs(SubSeq(pairs, 1, Len(pairs) - 1))
             last == pairs[Len(pairs)]
         IN  IF DictHas(init, last[1])
             THEN [i \in 1..Len(init) |->
                     IF init[i][1] = last[1] THEN last ELSE init[i]]
             ELSE Append(init, last)

\* __get_field_choices never re-keying (for comparison only)
GetFieldChoicesAsIs(field) ==
    IF field.is_pk_related
    THEN ListValue(<<<<<<"str", "Related field ">>, field.model>>>>)
    ELSE IF field.has_choices THEN field.choices
    ELSE NoneValue

\* __get_field_choices
GetFieldChoices(field) ==
    IF field.is_pk_related
    THEN ListValue(<<<<<<"str", "Related field ">>, field.model>>>>)
    ELSE IF field.has_choices
    THEN IF /\ field.choices.kind = "dict"
            /\ ~(\A i \in 1..Len(field.choices.items) :
                    IsStr(field.choices.items[i][1]))
         THEN DictValue(DictFromPairs(
                [i \in 1..Len(field.choices.items) |->
                    <<Str(field.choices.items[i][1]), field.choices.items[i][2]>>]))
         ELSE field.choices
    ELSE NoneValue

----------------------------------------------------------------------------
(* Field tree *)

\* field.help_text or ''
HelpText(field) == IF field.help_text = None THEN "" ELSE field.help_text

\* the sub-field target of line 128 taken to be the field itself (for
\* comparison only)
SubFieldTargetNoChild(field) == <<field>>

\* the object whose fields become sub_fields: field.child for a field with
\* a many attribute (line 128), the field itself otherwise (line 130)
SubFieldTarget(field) ==
    IF field.many THEN field.child ELSE <<field>>

\* line 124: hasattr(field, 'many')
ToManyRelation(field) == field.many

\* __get_serializer_fields__; serializer is a sequence holding the object,
\* empty for None
RECURSIVE GetSerializerFields(_)
GetSerializerFields(ser) ==
    IF Len(ser) = 0 \/ ~ser[1].has_get_fields THEN <<>>
    ELSE [i \in 1..Len(ser[1].fields) |->
            LET key == ser[1].fields[i][1]
                field == ser[1].fields[i][2]
            IN  [name |-> key,
                 type |-> field.type,
                 sub_fields |->
                    IF field.is_serializer
                    THEN ListValue(GetSerializerFields(SubFieldTarget(field)))
                    ELSE NoneValue,
                 required |-> field.required,
                 to_many_relation |-> ToManyRelation(field),
                 help_text |-> HelpText(field),
                 choices |-> GetFieldChoices(field)]]

\* __get_serializer_fields_json__: the encoded text is kept as the tagged
\* value it encodes
GetSerializerFieldsJson(flds) == [json |-> flds]

----------------------------------------------------------------------------
(* Metadata block *)

\* getattr(self.serializer, 'Meta', None) is truthy
HasMeta(ser, cls) == Len(ser) = 1 /\ cls.meta.present

\* __get_serializer_read_only_fields__
GetReadOnlyFields(ser, cls) ==
    IF HasMeta(ser, cls) THEN cls.meta.read_only_fields ELSE NoneValue

RECURSIVE WriteOnlyKeys(_)
WriteOnlyKeys(extra_kwargs) ==
    IF extra_kwargs = <<>> THEN <<>>
    ELSE LET key == Head(extra_kwargs)[1]
             value == Head(extra_kwargs)[2]
             rest == WriteOnlyKeys(Tail(extra_kwargs))
         IN  \* 'write_only' in value
             IF DictHas(value, "write_only") THEN <<key>> \o rest ELSE rest

\* __get_serializer_write_only_fields__
GetWriteOnlyFields(ser, cls) ==
    IF HasMeta(ser, cls)
    THEN ListValue(WriteOnlyKeys(cls.meta.extra_kwargs))
    ELSE NoneValue

\* __get_permissions_class__
GetPermissionsClass(h) ==
    IF h.permission_classes = <<>> THEN None ELSE Head(h.permission_classes)

----------------------------------------------------------------------------
(* Inputs: handlers *)

StandardActions == {"list", "create", "retrieve", "destroy"}

FullMethodNames == HTTP_METHOD_NAMES
ReadWriteMethodNames == <<"get", "post">>

\* The method-related part of a handler class.  A plain view or a viewset
\* that is not model-backed: callback.suffix is never read.
PlainMethodParts ==
    {[cls |-> "V", http_method_names |-> names, attrs |-> verbs \cup acts,
      is_model_viewset |-> FALSE, suffix |-> "Other", alias |-> FALSE] :
        names \in {FullMethodNames, ReadWriteMethodNames},
        verbs \in {{}, {"get"}},
        acts \in {{}, {"list", "custom", "destroy"}}}

\* A ModelViewSet: its mixins define the standard actions.
ModelViewSetMethodParts ==
    {m \in {[cls |-> "V", http_method_names |-> names,
             attrs |-> verbs \cup StandardActions \cup {"custom"},
             is_model_viewset |-> TRUE, suffix |-> sfx, alias |-> al] :
                names \in {FullMethodNames, ReadWriteMethodNames},
                verbs \in {{}, {"get"}},
                sfx \in {"List", "Instance", "Other"},
                al \in BOOLEAN} :
        m.alias => m.suffix = "List"}

MethodParts == PlainMethodParts \cup ModelViewSetMethodParts

DefaultMethodPart ==
    [cls |-> "V", http_method_names |-> FullMethodNames, attrs |-> {"get"},
     is_model_viewset |-> FALSE, suffix |-> "Other", alias |-> FALSE]

Absent == [present |-> FALSE, value |-> NoneClass]
Present(v) == [present |-> TRUE, value |-> v]

MkHandler(m, sc, gsc, perms) ==
    [cls |-> m.cls, http_method_names |-> m.http_method_names,
     attrs |-> m.attrs, is_model_viewset |-> m.is_model_viewset,
     suffix |-> m.suffix, alias |-> m.alias,
     serializer_class |-> sc, get_serializer_class |-> gsc,
     permission_classes |-> perms]

----------------------------------------------------------------------------
(* Inputs: routers *)

Lookup == <<"(?P<pk>[^/.]+)">>
TrailingSlash == <<"/">>

\* SimpleRouter's list and detail route templates
ListUrl == <<"^", "{prefix}", "{trailing_slash}", "$">>
DetailUrl == <<"^", "{prefix}", "/", "{lookup}", "{trailing_slash}", "$">>

RouteChoices ==
    {[url |-> ListUrl, mapping |-> <<<<"get", "list">>, <<"post", "create">>>>],
     [url |-> DetailUrl,
      mapping |-> <<<<"get", "retrieve">>, <<"delete", "destroy">>>>],
     [url |-> ListUrl, mapping |-> <<<<"get", "custom">>, <<"post", "custom">>>>],
     [url |-> ListUrl, mapping |-> <<<<"delete", "destroy">>>>]}

RegistryEntries ==
    {[prefix |-> <<"a">>, viewset |-> "V"],
     [prefix |-> <<"b">>, viewset |-> "V"],
     [prefix |-> <<"a">>, viewset |-> "W"]}

Routers ==
    {NoRouter} \cup
    {[is_none |-> FALSE, registry |-> reg, routes |-> rts,
      lookup |-> Lookup, trailing_slash |-> TrailingSlash] :
        reg \in SeqUpTo(RegistryEntries, MaxRegistry),
        rts \in SeqUpTo(RouteChoices, MaxRoutes)}

Patterns ==
    {Format(ListUrl, <<"a">>, Lookup, TrailingSlash),
     Format(DetailUrl, <<"a">>, Lookup, TrailingSlash),
     <<"^", "x", "/", "$">>}

ParentRegexes == {<<>>, <<"^", "api", "/">>}

DefaultRouter ==
    [is_none |-> FALSE,
     registry |-> <<[prefix |-> <<"a">>, viewset |-> "V"]>>,
     routes |-> <<[url |-> ListUrl,
                   mapping |-> <<<<"get", "list">>, <<"post", "create">>>>]>>,
     lookup |-> Lookup, trailing_slash |-> TrailingSlash]

----------------------------------------------------------------------------
(* Inputs: serializers *)

\* most field nodes (fields, nested serializers, children) under a serializer
MaxNodes == 4
\* most entries of a choice set
MaxChoices == 2
\* most entries of Meta.extra_kwargs
MaxKwargs == 2

NoChoices == NoneValue

MkField(type, is_ser, many, has_get_fields, flds, child, choices_on, choices) ==
    [type |-> type, is_serializer |-> is_ser, many |-> many,
     has_get_fields |-> has_get_fields, fields |-> flds, child |-> child,
     required |-> ~is_ser, help_text |-> IF many THEN None ELSE "help",
     is_pk_related |-> FALSE, model |-> None,
     has_choices |-> choices_on, choices |-> choices]

CharField == MkField("CharField", FALSE, FALSE, FALSE, <<>>, <<>>, FALSE, NoChoices)
\* a field that is no serializer but carries a many attribute
ManyField == MkField("ManyField", FALSE, TRUE, FALSE, <<>>, <<>>, FALSE, NoChoices)
\* a BaseSerializer subclass, which has no get_fields
BareSerializer ==
    MkField("BareSerializer", TRUE, FALSE, FALSE, <<>>, <<>>, FALSE, NoChoices)
LeafFields == {CharField, ManyField, BareSerializer}

PkField ==
    [MkField("PrimaryKeyRelatedField", FALSE, FALSE, FALSE, <<>>, <<>>, TRUE,
             DictValue(<<<<<<"int", "1">>, "x">>>>))
        EXCEPT !.is_pk_related = TRUE, !.model = "Model"]

\* a Serializer with the given fields, named by position
FieldName(i) == <<"field", i>>
Named(fs) == [i \in 1..Len(fs) |-> <<FieldName(i), fs[i]>>]
SerializerOf(fs) ==
    MkField("Serializer", TRUE, FALSE, TRUE, Named(fs), <<>>, FALSE, NoChoices)
\* a ListSerializer (many=True) around a child serializer
ListSerializerOf(child) ==
    MkField("ListSerializer", TRUE, TRUE, FALSE, <<>>, <<child>>, FALSE, NoChoices)

\* Field sequences with exactly n nodes below them, and field nodes of
\* exactly k nodes (themselves included): finite and acyclic by construction.
RECURSIVE Forest(_)
RECURSIVE FieldOfSize(_)
Forest(n) ==
    IF n = 0 THEN {<<>>}
    ELSE UNION {{<<f>> \o rest : f \in FieldOfSize(k), rest \in Forest(n - k)} :
                    k \in 1..n}
FieldOfSize(k) ==
    (IF k = 1 THEN LeafFields ELSE {})
    \cup {SerializerOf(fs) : fs \in Forest(k - 1)}
    \cup (IF k >= 2 THEN {ListSerializerOf(SerializerOf(fs)) : fs \in Forest(k - 2)}
          ELSE {})

SerializerTrees == UNION {{SerializerOf(fs) : fs \in Forest(n)} : n \in 0..MaxNodes}

\* Choice sets: dict- or list-shaped, keys distinct
ChoiceKeys == {<<"str", "1">>, <<"str", "a">>, <<"int", "1">>, <<"int", "2">>}
ChoiceValues == {"x", "y"}
ChoiceItems ==
    {c \in SeqUpTo(ChoiceKeys \X ChoiceValues, MaxChoices) :
        \A i, j \in 1..Len(c) : c[i][1] = c[j][1] => i = j}
ChoiceFields ==
    {MkField("ChoiceField", FALSE, FALSE, FALSE, <<>>, <<>>, TRUE, DictValue(c)) :
        c \in ChoiceItems}
    \cup {MkField("ChoiceField", FALSE, FALSE, FALSE, <<>>, <<>>, TRUE, ListValue(c)) :
        c \in ChoiceItems}
    \cup {CharField, PkField}

\* Meta: read_only_fields and extra_kwargs
KwargsChoices ==
    {<<>>, <<<<"write_only", TRUE>>>>, <<<<"write_only", FALSE>>>>,
     <<<<"required", TRUE>>>>}
NoMeta == [present |-> FALSE, read_only_fields |-> NoneValue, extra_kwargs |-> <<>>]
Metas ==
    {NoMeta} \cup
    {[present |-> TRUE, read_only_fields |-> ro, extra_kwargs |-> Named(kw)] :
        ro \in {NoneValue, ListValue(<<FieldName(1)>>)},
        kw \in SeqUpTo(KwargsChoices, MaxKwargs)}

MkClass(raises, instance, meta) ==
    [kind |-> "class", raises |-> raises, instance |-> instance, meta |-> meta]

DefaultClass == MkClass("none", SerializerOf(<<CharField>>), NoMeta)
OtherClass == MkClass("none", SerializerOf(<<CharField, CharField>>), NoMeta)

SerializerClasses ==
    {MkClass(r, inst, meta) :
        r \in {"none", "KeyError", "TypeError"},
        inst \in {SerializerOf(<<CharField>>), SerializerOf(<<>>), BareSerializer},
        meta \in Metas}

\* how a handler class declares its serializer: <<serializer_class attribute,
\* get_serializer_class method>>
SerializerSources(c) ==
    {<<Present(c), Absent>>, <<Present(c), Present(OtherClass)>>,
     <<Absent, Present(c)>>, <<Present(NoneClass), Present(c)>>,
     <<Absent, Absent>>, <<Present(NoneClass), Absent>>,
     <<Absent, Present(NoneClass)>>}

PermissionChoices == {<<>>, <<"IsAuthenticated", "IsAdminUser">>}

----------------------------------------------------------------------------
(* ApiEndpoint.__init__ *)

\* lines 29-35
Begin ==
    /\ pc = "start"
    /\ docstring' = getdoc(handler.cls)
    /\ name_parent' = GetNameParent(parent_regex)
    /\ path' = GetPath(parent_regex, GetNameParent(parent_regex), pattern)
    /\ pc' = "allowed_methods"
    /\ UNCHANGED <<handler, pattern, parent_regex, drf_router, raised,
                   allowed_methods, errors, serializer_class, serializer,
                   fields, fields_json, read_only_fields, write_only_fields,
                   permissions>>

\* line 36: __get_allowed_methods__, which also rebinds self.docstring
GetAllowedMethods ==
    /\ pc = "allowed_methods"
    /\ LET walk == RouterWalk(handler, pattern, drf_router, docstring)
           view_methods == ViewMethods(handler, handler.http_method_names)
       IN  /\ docstring' = walk.docstring
           /\ IF walk.raised # "none"
              THEN /\ raised' = walk.raised
                   /\ pc' = "failed"
                   /\ UNCHANGED allowed_methods
              ELSE /\ allowed_methods' =
                        ListValue(MergeMethods(walk.viewset_methods, view_methods))
                   /\ pc' = "serializer_class"
                   /\ UNCHANGED raised
    /\ UNCHANGED <<handler, pattern, parent_regex, drf_router, name_parent,
                   path, errors, serializer_class, serializer, fields,
                   fields_json, read_only_fields, write_only_fields,
                   permissions>>

\* lines 38-39
ResolveSerializerClass ==
    /\ pc = "serializer_class"
    /\ errors' = None
    /\ serializer_class' = GetSerializerClass(handler)
    /\ pc' = "serializer"
    /\ UNCHANGED <<handler, pattern, parent_regex, drf_router, raised,
                   docstring, name_parent, path, allowed_methods, serializer,
                   fields, fields_json, read_only_fields, write_only_fields,
                   permissions>>

\* lines 40-45
BuildSerializer ==
    /\ pc = "serializer"
    /\ IF serializer_class.kind = "class"
       THEN LET got == GetSerializer(serializer_class)
            IN  IF got.raised # "none"
                THEN /\ raised' = got.raised
                     /\ pc' = "failed"
                     /\ UNCHANGED <<errors, serializer, fields, fields_json,
                                    read_only_fields, write_only_fields>>
                ELSE /\ serializer' = got.instance
                     /\ errors' = IF got.errors = None THEN errors ELSE got.errors
                     /\ fields' = ListValue(GetSerializerFields(got.instance))
                     /\ fields_json' =
                            GetSerializerFieldsJson(GetSerializerFields(got.instance))
                     /\ read_only_fields' =
                            GetReadOnlyFields(got.instance, serializer_class)
                     /\ write_only_fields' =
                            GetWriteOnlyFields(got.instance, serializer_class)
                     /\ pc' = "permissions"
                     /\ UNCHANGED raised
       ELSE /\ pc' = "permissions"
            /\ UNCHANGED <<raised, errors, serializer, fields, fields_json,
                           read_only_fields, write_only_fields>>
    /\ UNCHANGED <<handler, pattern, parent_regex, drf_router, docstring,
                   name_parent, path, allowed_methods, serializer_class,
                   permissions>>

\* line 47
GetPermissions ==
    /\ pc = "permissions"
    /\ permissions' = GetPermissionsClass(handler)
    /\ pc' = "done"
    /\ UNCHANGED <<handler, pattern, parent_regex, drf_router, raised,
                   docstring, name_parent, path, allowed_methods, errors,
                   serializer_class, serializer, fields, fields_json,
                   read_only_fields, write_only_fields>>

Next ==
    \/ Begin
    \/ GetAllowedMethods
    \/ ResolveSerializerClass
    \/ BuildSerializer
    \/ GetPermissions

\* the state on entry to __init__ for given arguments
Entry(h, pat, parent, router) ==
    /\ handler = h
    /\ pattern = pat
    /\ parent_regex = parent
    /\ drf_router = router
    /\ pc = "start"
    /\ raised = "none"
    /\ docstring = UnsetDoc
    /\ name_parent = <<>>
    /\ path = <<>>
    /\ allowed_methods = UnsetValue
    /\ errors = Unset
    /\ serializer_class = UnsetClass
    /\ serializer = <<>>
    /\ fields = UnsetValue
    /\ fields_json = [json |-> <<>>]
    /\ read_only_fields = UnsetValue
    /\ write_only_fields = UnsetValue
    /\ permissions = Unset

\* handlers, patterns and routers vary; one serializer
Init ==
    \E m \in MethodParts, pat \in Patterns, router \in Routers :
        Entry(MkHandler(m, Present(DefaultClass), Absent, <<>>), pat, <<>>, router)

Spec == Init /\ [][Next]_vars

\* serializer declarations, classes and metadata blocks vary
InitSerializer ==
    \E c \in SerializerClasses, perms \in PermissionChoices,
       parent \in ParentRegexes :
        \E src \in SerializerSources(c) :
            Entry(MkHandler(DefaultMethodPart, src[1], src[2], perms),
                  Format(ListUrl, <<"a">>, Lookup, TrailingSlash), parent,
                  NoRouter)

SpecSerializer == InitSerializer /\ [][Next]_vars

\* the serializer's field graph varies
InitFields ==
    \E tree \in SerializerTrees :
        Entry(MkHandler(DefaultMethodPart, Present(MkClass("none", tree, NoMeta)),
                        Absent, <<>>),
              Format(ListUrl, <<"a">>, Lookup, TrailingSlash), <<>>, NoRouter)

SpecFields == InitFields /\ [][Next]_vars

\* the choice set of the serializer's one field varies
InitChoices ==
    \E f \in ChoiceFields :
        Entry(MkHandler(DefaultMethodPart,
                        Present(MkClass("none", SerializerOf(<<f>>), NoMeta)),
                        Absent, <<>>),
              Format(ListUrl, <<"a">>, Lookup, TrailingSlash), <<>>, NoRouter)

SpecChoices == InitChoices /\ [][Next]_vars

----------------------------------------------------------------------------
(* Vocabulary of the properties *)

\* __get_allowed_methods__ has returned and its result is stored
MethodsBuilt == allowed_methods.kind = "list"
AllowedSet == Range(allowed_methods.items)

\* methods that pass the direct capability check, as a set
DirectSet ==
    {Upper(m) : m \in {n \in Range(handler.http_method_names) :
        \/ n \in handler.attrs
        \/ handler.is_model_viewset /\ n \in Range(VIEWSET_METHODS(handler.suffix))}}

\* the registry positions that register the handler class, and the routes
\* whose reconstructed pattern is the endpoint's pattern
RegisteredAt ==
    IF drf_router.is_none THEN {}
    ELSE {i \in 1..Len(drf_router.registry) :
            drf_router.registry[i].viewset = handler.cls}
RouteMatches(i, j) ==
    Format(drf_router.routes[j].url, drf_router.registry[i].prefix,
           drf_router.lookup, drf_router.trailing_slash) = pattern
RouteIndexes == IF drf_router.is_none THEN {} ELSE 1..Len(drf_router.routes)

\* HTTP methods of route j that have a bound action (the action exists on
\* the handler class), and the actions they are bound to
BoundMethods(j) ==
    {p[1] : p \in {q \in Range(drf_router.routes[j].mapping) : q[2] \in handler.attrs}}
BoundActions(j) ==
    {p[2] : p \in {q \in Range(drf_router.routes[j].mapping) : q[2] \in handler.attrs}}
\* the same, for the methods the handler class lists in http_method_names
ListedBoundMethods(j) == BoundMethods(j) \cap Range(handler.http_method_names)
ListedBoundActions(j) ==
    {p[2] : p \in {q \in Range(drf_router.routes[j].mapping) :
        q[2] \in handler.attrs /\ q[1] \in Range(handler.http_method_names)}}

\* registered once, and exactly one route reconstructs to the pattern
OneMatch(i, j) ==
    /\ RegisteredAt = {i}
    /\ {k \in RouteIndexes : RouteMatches(i, k)} = {j}

----------------------------------------------------------------------------
(* C1 *)

\* C1: the allowed-methods list is the de-duplicated, ascending-sorted merge
\* of the router-derived and the direct-capability methods; no method name
\* occurs in it twice, also when both sources produce it.
C1_AllowedMethodsDeduplicated ==
    MethodsBuilt =>
        /\ \A i, j \in 1..Len(allowed_methods.items) :
                i < j => StrRank(allowed_methods.items[i])
                            < StrRank(allowed_methods.items[j])
        /\ DirectSet \subseteq AllowedSet

----------------------------------------------------------------------------
(* C2 *)

\* C2 as stated: with the handler class registered once and exactly one
\* route reconstructing to the pattern, the set of allowed methods is the
\* union of every method bound in that route's mapping (upper-cased) and
\* the direct-capability methods.
C2_AllowedSetIsBoundUnionDirect ==
    \A i \in RegisteredAt : \A j \in RouteIndexes :
        (OneMatch(i, j) /\ MethodsBuilt) =>
            AllowedSet = {Upper(m) : m \in BoundMethods(j)} \cup DirectSet

\* C2 amended: the union takes the bound methods that the handler class
\* lists in http_method_names; when the route binds actions but none for a
\* listed method, __init__ raises ValueError and no list is built.
C2_AllowedSetIsListedBoundUnionDirect ==
    \A i \in RegisteredAt : \A j \in RouteIndexes :
        OneMatch(i, j) =>
            /\ MethodsBuilt =>
                AllowedSet = {Upper(m) : m \in ListedBoundMethods(j)} \cup DirectSet
            /\ (pc \notin {"start", "allowed_methods"}
                    /\ BoundMethods(j) # {} /\ ListedBoundMethods(j) = {})
                => (raised = "ValueError" /\ ~MethodsBuilt)
            /\ (pc \notin {"start", "allowed_methods"}
                    /\ (BoundMethods(j) = {} \/ ListedBoundMethods(j) # {}))
                => MethodsBuilt

\* a route binding a method the class does not list has been merged
C2_Witness ==
    /\ pc = "done"
    /\ \E i \in RegisteredAt : \E j \in RouteIndexes :
        /\ OneMatch(i, j)
        /\ ListedBoundMethods(j) # {}
        /\ ListedBoundMethods(j) # BoundMethods(j)
        /\ ~({Upper(m) : m \in ListedBoundMethods(j)} \subseteq DirectSet)

----------------------------------------------------------------------------
(* C3 *)

AllowList == {Upper(m) : m \in Range(VIEWSET_METHODS(handler.suffix))}

\* C3 as stated: for a model-backed handler of kind List or Instance the
\* allowed methods include the whole allow-list of the kind.
C3_AllowListIncluded ==
    (MethodsBuilt /\ handler.is_model_viewset) => AllowList \subseteq AllowedSet

\* C3 amended: they include every method of the kind's allow-list that the
\* handler class lists in http_method_names.
C3_ListedAllowListIncluded ==
    (MethodsBuilt /\ handler.is_model_viewset) =>
        {Upper(m) : m \in Range(VIEWSET_METHODS(handler.suffix))
                            \cap Range(handler.http_method_names)}
            \subseteq AllowedSet

\* an Instance handler without handler attributes or router got its list
C3_Witness ==
    /\ pc = "done"
    /\ handler.is_model_viewset
    /\ handler.suffix = "Instance"
    /\ handler.attrs \cap Range(HTTP_METHOD_NAMES) = {}
    /\ drf_router.is_none
    /\ AllowedSet = {"GET", "PUT", "PATCH", "DELETE"}

----------------------------------------------------------------------------
(* C4 *)

\* the overrides of Meta.extra_kwargs that mark their field write-only
MarkedWriteOnly(cls) ==
    {cls.meta.extra_kwargs[i][1] : i \in {k \in 1..Len(cls.meta.extra_kwargs) :
        <<"write_only", TRUE>> \in Range(cls.meta.extra_kwargs[k][2])}}

\* C4: the write-only field list holds exactly the field names whose
\* extra_kwargs override sets write_only to true; an override without the
\* marking, or with write_only false, contributes nothing.
C4_WriteOnlyExactlyMarked ==
    write_only_fields.kind = "list" =>
        Range(write_only_fields.items) = MarkedWriteOnly(serializer_class)

----------------------------------------------------------------------------
(* C5 *)

KeyErrorCase ==
    serializer_class.kind = "class" /\ serializer_class.raises = "KeyError"
SuccessCase ==
    serializer_class.kind = "class" /\ serializer_class.raises = "none"

\* C5: when instantiating the serializer class raises KeyError, __init__
\* completes: errors holds the KeyError, the field list is empty, and path,
\* allowed methods and docstring are what they were before the attempt, the
\* permission name is that of the first permission class; on success
\* errors stays None.
C5_KeyErrorIsSoft ==
    /\ (KeyErrorCase /\ pc # "serializer") =>
            /\ pc \in {"permissions", "done"}
            /\ raised = "none"
            /\ errors = "KeyError"
            /\ fields = ListValue(<<>>)
            /\ path = (IF parent_regex = <<>> THEN <<>>
                       ELSE <<"/", "api">>) \o <<"/", "a", "/">>
            /\ allowed_methods = ListValue(<<"GET">>)
            /\ docstring = <<"doc", handler.cls>>
            /\ pc = "done" =>
                    permissions = (IF handler.permission_classes = <<>> THEN None
                                   ELSE handler.permission_classes[1])
    /\ (SuccessCase /\ pc # "serializer") =>
            (pc \in {"permissions", "done"} /\ errors = None)

\* construction finished after a KeyError from the serializer class
C5_Witness ==
    /\ pc = "done"
    /\ KeyErrorCase
    /\ errors = "KeyError"
    /\ parent_regex # <<>>
    /\ permissions = "IsAuthenticated"

----------------------------------------------------------------------------
(* C6 *)

\* a serializer class can be obtained from the handler: the serializer_class
\* attribute holds one or, failing that, get_serializer_class returns one
Resolvable(h) ==
    \/ h.serializer_class.present /\ h.serializer_class.value.kind = "class"
    \/ /\ ~(h.serializer_class.present /\ h.serializer_class.value.kind = "class")
       /\ h.get_serializer_class.present
       /\ h.get_serializer_class.value.kind = "class"

\* C6: a constructed endpoint has a field list if and only if a serializer
\* class was resolvable from the attribute or, failing that, the factory.
C6_FieldsIffResolvable ==
    pc = "done" => (fields.kind = "list" <=> Resolvable(handler))

----------------------------------------------------------------------------
(* C7 and C9 *)

\* the (registry entry, route) pairs the walk matches: the entry registers
\* the handler class, the route binds an action and reconstructs to the
\* pattern; VisitOrder is the order the walk meets them in
Visits ==
    {v \in RegisteredAt \X RouteIndexes :
        RouteMatches(v[1], v[2]) /\ BoundMethods(v[2]) # {}}
VisitOrder(v) == (v[1] - 1) * Len(drf_router.routes) + v[2]

\* the functions the bound actions of route j resolve to
BoundFunctions(j) == {getattr(handler, a) : a \in BoundActions(j)}

\* visits whose bound actions, for the listed methods, are one attribute name
SingleNameVisits == {v \in Visits : Cardinality(ListedBoundActions(v[2])) = 1}
LastSingleNameVisit ==
    CHOOSE v \in SingleNameVisits :
        \A w \in SingleNameVisits : VisitOrder(w) <= VisitOrder(v)

\* C7 as stated: when all bound actions of a matching route resolve to the
\* same function, the docstring after construction is that function's
\* documentation.
C7_SameFunctionDocstring ==
    MethodsBuilt =>
        \A v \in Visits :
            Cardinality(BoundFunctions(v[2])) = 1 =>
                \A f \in BoundFunctions(v[2]) : docstring = getdoc(f)

\* C7 amended: when the actions a matching route binds for the methods in
\* http_method_names are one attribute name, and no matching route visited
\* later is of that kind too, the docstring after construction is the
\* documentation of the function that name resolves to.
C7_LastSingleNameDocstring ==
    (MethodsBuilt /\ SingleNameVisits # {}) =>
        \A a \in ListedBoundActions(LastSingleNameVisit[2]) :
            docstring = getdoc(getattr(handler, a))

\* two matching routes each bound to one function, the later one adopted
C7_Witness ==
    /\ pc = "done"
    /\ \E v, w \in SingleNameVisits :
        /\ VisitOrder(v) < VisitOrder(w)
        /\ ListedBoundActions(v[2]) # ListedBoundActions(w[2])
        /\ w = LastSingleNameVisit
        /\ \A a \in ListedBoundActions(w[2]) : docstring = <<"doc", a>>

\* C9 as stated: when the bound actions of a matching route resolve to more
\* than one function, the docstring after the whole walk is the handler's
\* own, whatever else was visited.
C9_DistinctFunctionsKeepDocstring ==
    (MethodsBuilt /\ \E v \in Visits : Cardinality(BoundFunctions(v[2])) > 1)
        => docstring = getdoc(handler.cls)

\* C9 amended: ... the docstring after the whole walk is the handler's own
\* provided no matching route, that one included, binds a single attribute
\* name for the methods in http_method_names.
C9_DistinctFunctionsNoSingleName ==
    (/\ MethodsBuilt
     /\ \E v \in Visits : Cardinality(BoundFunctions(v[2])) > 1
     /\ SingleNameVisits = {})
        => docstring = getdoc(handler.cls)

\* a matched route bound to two functions left the handler's docstring
C9_Witness ==
    /\ pc = "done"
    /\ \E v \in Visits : Cardinality(BoundFunctions(v[2])) > 1
    /\ Cardinality(Visits) > 1
    /\ SingleNameVisits = {}
    /\ docstring = <<"doc", "V">>

----------------------------------------------------------------------------
(* C8 *)

\* the one field of the serializer and the choices reported for it
TheField == serializer_class.instance.fields[1][2]
TheChoices == fields.items[1].choices
ChoicesReported ==
    /\ fields.kind = "list"
    /\ Len(fields.items) = 1
    /\ TheField.has_choices
    /\ ~TheField.is_pk_related
Declared == TheField.choices.items
HasNonStringKey == \E i \in 1..Len(Declared) : ~IsStr(Declared[i][1])

\* C8 as stated: with a non-string key, mapping- or list-shaped, the result
\* is a mapping with string keys in which every declared value is found
\* under the string form of its key; with string keys only, the choice set
\* is returned as it is.
C8_ChoicesRekeyed ==
    ChoicesReported =>
        IF HasNonStringKey
        THEN /\ TheChoices.kind = "dict"
             /\ \A p \in Range(TheChoices.items) : IsStr(p[1])
             /\ \A i \in 1..Len(Declared) :
                    <<Str(Declared[i][1]), Declared[i][2]>> \in Range(TheChoices.items)
        ELSE TheChoices = TheField.choices

\* C8 amended: only a mapping-shaped choice set with a non-string key is
\* re-keyed: the result's keys are the string forms of the declared keys,
\* each once, and a key's value is that of the last declared key with that
\* string form; a list-shaped choice set, and one with string keys only,
\* is returned as it is.
C8_MappingChoicesRekeyedLastWins ==
    ChoicesReported =>
        IF HasNonStringKey /\ TheField.choices.kind = "dict"
        THEN /\ TheChoices.kind = "dict"
             /\ {p[1] : p \in Range(TheChoices.items)}
                    = {Str(Declared[i][1]) : i \in 1..Len(Declared)}
             /\ \A i, j \in 1..Len(TheChoices.items) :
                    TheChoices.items[i][1] = TheChoices.items[j][1] => i = j
             /\ \A p \in Range(TheChoices.items) :
                    /\ IsStr(p[1])
                    /\ \E i \in 1..Len(Declared) :
                        /\ Str(Declared[i][1]) = p[1]
                        /\ Declared[i][2] = p[2]
                        /\ \A j \in 1..Len(Declared) :
                                Str(Declared[j][1]) = p[1] => j <= i
        ELSE TheChoices = TheField.choices

\* a mapping with a non-string key was re-keyed and two keys fell together
C8_Witness ==
    /\ pc = "done"
    /\ ChoicesReported
    /\ TheField.choices.kind = "dict"
    /\ HasNonStringKey
    /\ Len(Declared) = 2
    /\ Len(TheChoices.items) = 1

----------------------------------------------------------------------------
(* C10 *)

\* descs is one descriptor per declared field of the serializer object ser,
\* in declaration order, each with the to-many flag of its field and with
\* sub-fields mirroring the nested serializer (its child for a many field),
\* absent for a field that is no serializer
RECURSIVE Mirrors(_, _)
Mirrors(descs, ser) ==
    LET declared == IF ser.has_get_fields THEN ser.fields ELSE <<>>
    IN  /\ Len(descs) = Len(declared)
        /\ \A i \in 1..Len(declared) :
            LET d == descs[i]
                f == declared[i][2]
            IN  /\ d.name = declared[i][1]
                /\ d.type = f.type
                /\ d.to_many_relation = f.many
                /\ IF f.is_serializer
                   THEN /\ d.sub_fields.kind = "list"
                        /\ Mirrors(d.sub_fields.items,
                                   IF f.many THEN f.child[1] ELSE f)
                   ELSE d.sub_fields = NoneValue

\* C10: field-tree extraction over a finite acyclic field graph returns at
\* every level one descriptor per declared field in declaration order, with
\* sub-fields for serializer fields only (the child's for a many field) and
\* the to-many flag set exactly for fields with a many attribute.
C10_FieldTreeMirrorsGraph ==
    /\ (SuccessCase /\ pc # "serializer") => fields.kind = "list"
    /\ fields.kind = "list" => Mirrors(fields.items, serializer_class.instance)

\* a many serializer nested in a serializer was expanded through its child
C10_Witness ==
    /\ pc = "done"
    /\ fields.kind = "list"
    /\ \E i \in 1..Len(fields.items) :
        /\ fields.items[i].sub_fields.kind = "list"
        /\ \E j \in 1..Len(fields.items[i].sub_fields.items) :
            LET d == fields.items[i].sub_fields.items[j]
            IN  /\ d.to_many_relation
                /\ d.sub_fields.kind = "list"
                /\ Len(d.sub_fields.items) = 1

====
